---- MODULE Spec2Model ----
(***************************************************************************)
(* Model of RestAdapter (src/RestAdapter/rest_adapter.py): the generic     *)
(* _do dispatcher behind get/post/put/delete, and the log method.          *)
(*                                                                         *)
(* Text is modelled as sequences of one-character strings, so that the     *)
(* f-strings, str.join, str.format, repr and str.upper of the source are   *)
(* computed character by character.                                        *)
(*                                                                         *)
(* The logger and the transport (requests.Session) are collaborators: the  *)
(* model records what the adapter hands to them, in order, in trace.       *)
(***************************************************************************)
EXTENDS Integers, Sequences, FiniteSets, TLC

(* ---------------------------- bounds ---------------------------------- *)
MaxLen == 1      \* longest endpoint drawn from EndpointAlphabet
MaxCalls == 2    \* calls of get/post/put/delete in one behaviour

(* ------------------------- text constants ----------------------------- *)
S_https == <<"h","t","t","p","s",":","/","/">>
S_slash == <<"/">>
S_method == <<"m","e","t","h","o","d","=">>
S_url == <<","," ","u","r","l","=">>
S_params == <<","," ","p","a","r","a","m","s","=">>
S_comma == <<","," ">>
S_colon == <<":"," ">>
S_template == <<"s","u","c","c","e","s","s","=","{","s","u","c","c","e","s","s","}",","," ","s","t","a","t","u","s","_","c","o","d","e","=","{","s","t","a","t","u","s","_","c","o","d","e","}",","," ","m","e","s","s","a","g","e","=","{","m","e","s","s","a","g","e","}">>
K_success == <<"s","u","c","c","e","s","s">>
K_status_code == <<"s","t","a","t","u","s","_","c","o","d","e">>
K_message == <<"m","e","s","s","a","g","e">>
S_True == <<"T","r","u","e">>
S_False == <<"F","a","l","s","e">>
GET == <<"G","E","T">>
POST == <<"P","O","S","T">>
PUT == <<"P","U","T">>
DELETE == <<"D","E","L","E","T","E">>
L_FATAL == <<"F","A","T","A","L">>
L_critical == <<"c","r","i","t","i","c","a","l">>
L_CRITICAL == <<"C","R","I","T","I","C","A","L">>
L_ERROR == <<"E","R","R","O","R">>
L_WARNING == <<"W","A","R","N","I","N","G">>
L_INFO == <<"I","N","F","O">>
L_DEBUG == <<"D","E","B","U","G">>

(* logging's numeric severities, as imported and as written in log *)
DEBUG == 10
INFO == 20
WARNING == 30
ERROR == 40
CRITICAL == 50
NOTSET == 0

(* --------------------------- the inputs ------------------------------- *)
RECURSIVE BoundedSeq(_, _)
BoundedSeq(S, n) ==
  IF n = 0 THEN {<<>>}
  ELSE LET shorter == BoundedSeq(S, n - 1)
       IN shorter \cup {Append(s, c) : s \in {t \in shorter : Len(t) = n - 1}, c \in S}

EndpointAlphabet == {"a", "{", "}"}
\* every text over the alphabet up to MaxLen, and two longer ones: an
\* escaped brace and a replacement field
Endpoints == BoundedSeq(EndpointAlphabet, MaxLen) \cup {<<"{","{">>, <<"{","a","}">>}

Hostnames == {<<"h">>}
Versions == {<<>>, <<"v","1">>}
ApiKeys == {<<"K","E","Y">>}

NoneDict == [none |-> TRUE, items |-> <<>>]
Dict(items) == [none |-> FALSE, items |-> items]
\* query-parameter mappings, in insertion order: omitted, empty, two pairs
\* (one holding a quote), and a pair holding braces
ParamDicts ==
  { NoneDict,
    Dict(<<>>),
    Dict(<< <<<<"k">>, <<"v">>>>, <<<<"j">>, <<"'">>>> >>),
    Dict(<< <<<<"{">>, <<"}">>>> >>) }
DataDicts == { NoneDict, Dict(<< <<<<"d">>, <<"1">>>> >>) }

NoResponse == [status_code |-> 0, reason |-> <<>>]
Responses ==
  { [status_code |-> 199, reason |-> <<"x">>],
    [status_code |-> 200, reason |-> <<"O","K">>],
    [status_code |-> 299, reason |-> <<"{","}">>],
    [status_code |-> 300, reason |-> <<"x">>],
    [status_code |-> 404, reason |-> <<"N","o","t"," ","F","o","u","n","d">>] }

NoException == [type |-> "none", text |-> <<>>]
\* RequestException instances the transport can raise; text is str(e)
TransportErrors ==
  { [type |-> "RequestException", text |-> <<"r","e","f","u","s","e","d">>] }

LogLabels ==
  { L_DEBUG, L_INFO, L_WARNING, L_ERROR, L_CRITICAL, L_FATAL, L_critical,
    <<"d","e","b","u","g">>, <<"I","n","f","o">>, <<"W","a","r","n","i","n","g">>,
    <<"e","r","r","o","r">>, <<"C","r","i","t","i","c","a","l">>,
    <<"f","a","t","a","l">>, <<"W","A","R","N">>, <<"T","R","A","C","E">>,
    <<"n","o","t","i","c","e">>, <<>> }
LogMessages == {<<"m">>, <<"{","}">>}

(* ---------------------- Python text conversions ------------------------ *)
RECURSIVE Join(_, _)
\* sep.join(parts)
Join(sep, parts) ==
  IF parts = <<>> THEN <<>>
  ELSE IF Len(parts) = 1 THEN parts[1]
  ELSE parts[1] \o sep \o Join(sep, Tail(parts))

Contains(s, c) == \E i \in 1..Len(s) : s[i] = c

DigitChars == <<"0","1","2","3","4","5","6","7","8","9">>
IsDigit(c) == \E i \in 1..10 : DigitChars[i] = c

RECURSIVE IntStr(_)
\* str(n) of a non-negative int
IntStr(n) ==
  IF n < 10 THEN <<DigitChars[n + 1]>>
  ELSE IntStr(n \div 10) \o <<DigitChars[(n % 10) + 1]>>

\* str(b) of a bool
BoolStr(b) == IF b THEN S_True ELSE S_False

RECURSIVE Escape(_, _)
\* backslash-escape the quote character and the backslash, as repr does
Escape(s, q) ==
  IF s = <<>> THEN <<>>
  ELSE (IF Head(s) = q \/ Head(s) = "\\" THEN <<"\\", Head(s)>> ELSE <<Head(s)>>)
       \o Escape(Tail(s), q)

\* repr(s) of a str of printable characters: single quotes, unless the text
\* holds a single quote and no double quote
StrRepr(s) ==
  LET q == IF Contains(s, "'") /\ ~Contains(s, "\"") THEN "\"" ELSE "'"
  IN <<q>> \o Escape(s, q) \o <<q>>

\* str(l) of a list of str: "[" + ", ".join(repr(e)) + "]"
ListStr(l) ==
  <<"[">> \o Join(S_comma, [i \in 1..Len(l) |-> StrRepr(l[i])]) \o <<"]">>

LowerChars == <<"a","b","c","d","e","f","g","h","i","j","k","l","m","n","o","p","q","r","s","t","u","v","w","x","y","z">>
UpperChars == <<"A","B","C","D","E","F","G","H","I","J","K","L","M","N","O","P","Q","R","S","T","U","V","W","X","Y","Z">>
UpperChar(c) ==
  IF \E i \in 1..Len(LowerChars) : LowerChars[i] = c
  THEN UpperChars[CHOOSE i \in 1..Len(LowerChars) : LowerChars[i] = c]
  ELSE c
\* s.upper()
Upper(s) == [i \in 1..Len(s) |-> UpperChar(s[i])]

(* ----------------------------- str.format ----------------------------- *)
FormatOk(text) == [ok |-> TRUE, str |-> text, exc |-> NoException]
FormatRaises(type) == [ok |-> FALSE, str |-> <<>>, exc |-> [type |-> type, text |-> <<>>]]

\* least element of a non-empty set of positions, `otherwise` for the empty set
First(positions, otherwise) ==
  IF positions = {} THEN otherwise
  ELSE CHOOSE j \in positions : \A k \in positions : j <= k

RECURSIVE FieldNameEnd(_, _)
\* Scan of a replacement field's name from position i: the position of the
\* "}", ":" or "{" that stops it, Len(s) + 1 when the text ends first.
\* A "[" skips to the next "]".
FieldNameEnd(s, i) ==
  LET stop == First({j \in i..Len(s) : s[j] \in {"}", ":", "{", "["}}, Len(s) + 1)
  IN IF stop > Len(s) \/ s[stop] # "[" THEN stop
     ELSE LET close == First({j \in (stop + 1)..Len(s) : s[j] = "]"}, Len(s) + 1)
          IN IF close > Len(s) THEN Len(s) + 1 ELSE FieldNameEnd(s, close + 1)

\* Scan of a format specification from position i: the position of the "}"
\* that closes the field (every "{" before it has been closed), Len(s) + 1
\* if there is none
FormatSpecEnd(s, i) ==
  First({j \in i..Len(s) :
           /\ s[j] = "}"
           /\ Cardinality({k \in i..(j - 1) : s[k] = "{"})
                = Cardinality({k \in i..(j - 1) : s[k] = "}"})},
        Len(s) + 1)

\* first part of a field name: up to the first "." or "["
FirstName(name) ==
  SubSeq(name, 1, First({j \in 1..Len(name) : name[j] \in {".", "["}}, Len(name) + 1) - 1)

RECURSIVE FormatFrom(_, _, _, _)
\* s.format(**kw) from position i, with `out` already produced.  Literal
\* text is copied up to the next brace; "{{" and "}}" produce one brace; a
\* stray brace raises ValueError.  No positional argument is passed, so an
\* empty or numeric field name raises IndexError; an unknown keyword raises
\* KeyError.  (No text of this model reaches the last two failures, a known
\* keyword followed by an attribute, an index or a format specification.)
FormatFrom(s, i, kw, out) ==
  LET b == First({j \in i..Len(s) : s[j] \in {"{", "}"}}, Len(s) + 1)
      text == out \o SubSeq(s, i, b - 1)
  IN
  IF b > Len(s) THEN FormatOk(text)
  ELSE IF s[b] = "}"
       THEN IF b < Len(s) /\ s[b + 1] = "}"
            THEN FormatFrom(s, b + 2, kw, Append(text, "}"))
            ELSE FormatRaises("ValueError")
  ELSE IF b = Len(s) THEN FormatRaises("ValueError")
  ELSE IF s[b + 1] = "{" THEN FormatFrom(s, b + 2, kw, Append(text, "{"))
  ELSE
    LET e == FieldNameEnd(s, b + 1)
        field == SubSeq(s, b + 1, e - 1)
        name == FirstName(field)
        hasSpec == e <= Len(s) /\ s[e] = ":"
        close == IF hasSpec THEN FormatSpecEnd(s, e + 1) ELSE e
        spec == IF hasSpec THEN SubSeq(s, e + 1, close - 1) ELSE <<>>
    IN IF e > Len(s) \/ s[e] = "{" \/ close > Len(s) THEN FormatRaises("ValueError")
       ELSE IF name = <<>> \/ (\A j \in 1..Len(name) : IsDigit(name[j]))
            THEN FormatRaises("IndexError")
       ELSE IF name \notin DOMAIN kw THEN FormatRaises("KeyError")
       ELSE IF name # field THEN FormatRaises("AttributeError")
       ELSE IF spec # <<>> THEN FormatRaises("ValueError")
       ELSE FormatFrom(s, close + 1, kw, text \o kw[name])

\* s.format(**kw); kw maps keyword names to the str() of their values
Format(s, kw) == FormatFrom(s, 1, kw, <<>>)

(* ------------------------------ state --------------------------------- *)
VARIABLES
  url,            \* self.url
  session_headers,\* self.session.headers
  api_key,        \* self._api_key
  pc,             \* "idle", or "sending" while _do waits in session.send
  op,             \* the method called last: "none", "_do" or "log"
  args,           \* arguments of the current or last call of _do
  locals,         \* _do's log_line_post and is_success
  transport,      \* what session.send did in the current or last call of _do
  result,         \* how the last call of _do ended: returned value or raised error
  logargs,        \* arguments of the last call of log
  trace,          \* records handed to the logger and requests handed to
                  \* session.send by the current or last call, in order
  ncalls,         \* calls of get/post/put/delete so far
  nsends          \* calls of session.send so far

vars == <<url, session_headers, api_key, pc, op, args, locals, transport, result,
          logargs, trace, ncalls, nsends>>

Methods == {GET, POST, PUT, DELETE}

\* headers of a fresh requests.Session()
DefaultHeaders ==
  [h \in {"User-Agent", "Accept-Encoding", "Accept", "Connection"} |->
     CASE h = "User-Agent" -> <<"r","q">>
       [] h = "Accept-Encoding" -> <<"g","z">>
       [] h = "Accept" -> <<"*","/","*">>
       [] h = "Connection" -> <<"k","a">>]

NoArgs == [http_method |-> <<>>, endpoint |-> <<>>, ep_params |-> NoneDict, data |-> NoneDict]
NoLocals == [log_line_post |-> <<>>, is_success |-> FALSE]
NoTransport == [kind |-> "none", response |-> NoResponse, exc |-> NoException]
NoResult == [kind |-> "none", response |-> NoResponse, exc |-> NoException]
NoLogArgs == [level |-> <<>>, msg |-> <<>>]

LogRecord(level, msg) == [ev |-> "log", level |-> level, msg |-> msg]
SendEvent(request) == [ev |-> "send", request |-> request]

(* --------------------------- __init__ ---------------------------------- *)
\* self.url = f"https://{hostname}/", plus f"{ver}/" when ver is not empty
BaseUrl(hostname, ver) ==
  S_https \o hostname \o S_slash \o (IF ver # <<>> THEN ver \o S_slash ELSE <<>>)

Init ==
  /\ \E hostname \in Hostnames, ver \in Versions : url = BaseUrl(hostname, ver)
  /\ session_headers = DefaultHeaders
  /\ api_key \in ApiKeys
  /\ pc = "idle"
  /\ op = "none"
  /\ args = NoArgs
  /\ locals = NoLocals
  /\ transport = NoTransport
  /\ result = NoResult
  /\ logargs = NoLogArgs
  /\ trace = <<>>
  /\ ncalls = 0
  /\ nsends = 0

(* ------------------------------- log ----------------------------------- *)
\* log with a default case that falls back to debug severity
LogLevel_DefaultDebug(level) ==
  LET u == Upper(level)
  IN IF u = L_FATAL \/ u = L_critical THEN CRITICAL
     ELSE IF u = L_ERROR THEN ERROR
     ELSE IF u = L_WARNING THEN WARNING
     ELSE IF u = L_INFO THEN INFO
     ELSE DEBUG

\* the match statement of log: the severity handed to self._logger.log
LogLevel(level) ==
  LET u == Upper(level)
  IN IF u = L_FATAL \/ u = L_critical THEN CRITICAL
     ELSE IF u = L_ERROR THEN ERROR
     ELSE IF u = L_WARNING THEN WARNING
     ELSE IF u = L_INFO THEN INFO
     ELSE IF u = L_DEBUG THEN DEBUG
     ELSE NOTSET

Log(level, msg) ==
  /\ pc = "idle"
  /\ op' = "log"
  /\ logargs' = [level |-> level, msg |-> msg]
  /\ trace' = <<LogRecord(LogLevel(level), msg)>>
  /\ args' = NoArgs
  /\ locals' = NoLocals
  /\ transport' = NoTransport
  /\ result' = NoResult
  /\ UNCHANGED <<url, session_headers, api_key, pc, ncalls, nsends>>

(* ------------------------------- _do ----------------------------------- *)
\* if ep_params: a mapping that is neither None nor empty
Truthy(d) == ~d.none /\ d.items # <<>>

\* [f"{key}: {value}" for key, value in ep_params.items()] if ep_params else []
LogParams(ep_params) ==
  IF Truthy(ep_params)
  THEN [i \in 1..Len(ep_params.items) |->
          ep_params.items[i][1] \o S_colon \o ep_params.items[i][2]]
  ELSE <<>>

\* a pre-flight line that leaves the params field out when there is nothing
\* to list
LogLinePre_OmitEmpty(http_method, full_url, log_params) ==
  S_method \o http_method \o S_url \o full_url
    \o (IF log_params = <<>> THEN <<>> ELSE S_params \o ListStr(log_params))

\* f"method={http_method}, url={full_url}, params={log_params}"
LogLinePre(http_method, full_url, log_params) ==
  S_method \o http_method \o S_url \o full_url \o S_params \o ListStr(log_params)

\* ', '.join((log_line_pre, "success={success}, status_code=..., message=..."))
LogLinePost(log_line_pre) == Join(S_comma, <<log_line_pre, S_template>>)

\* Request(method, url, headers=self.session.headers, params, json).prepare()
PreparedRequest(http_method, full_url, ep_params, data) ==
  [method |-> http_method, url |-> full_url, headers |-> session_headers,
   params |-> ep_params, json |-> data]

\* _do up to the call of session.send: the two log lines are built, the
\* pre-flight line is logged at debug severity, the request is prepared
\* and handed to the transport
DoBegin(http_method, endpoint, ep_params, data) ==
  LET full_url == url \o endpoint
      log_params == LogParams(ep_params)
      log_line_pre == LogLinePre(http_method, full_url, log_params)
      log_line_post == LogLinePost(log_line_pre)
  IN /\ pc = "idle"
     /\ ncalls < MaxCalls
     /\ pc' = "sending"
     /\ op' = "_do"
     /\ args' = [http_method |-> http_method, endpoint |-> endpoint,
                 ep_params |-> ep_params, data |-> data]
     /\ locals' = [log_line_post |-> log_line_post, is_success |-> FALSE]
     /\ trace' = << LogRecord(DEBUG, log_line_pre),
                    SendEvent(PreparedRequest(http_method, full_url, ep_params, data)) >>
     /\ transport' = NoTransport
     /\ result' = NoResult
     /\ logargs' = NoLogArgs
     /\ ncalls' = ncalls + 1
     /\ nsends' = nsends + 1
     /\ UNCHANGED <<url, session_headers, api_key>>

Get(endpoint, ep_params) == DoBegin(GET, endpoint, ep_params, NoneDict)
Post(endpoint, ep_params, data) == DoBegin(POST, endpoint, ep_params, data)
Put(endpoint, ep_params, data) == DoBegin(PUT, endpoint, ep_params, data)
Delete(endpoint, ep_params) == DoBegin(DELETE, endpoint, ep_params, NoneDict)

\* a classification that leaves the upper boundary out
IsSuccess_Exclusive(status_code) == 299 > status_code /\ status_code >= 200

\* is_success = 299 >= response.status_code >= 200
IsSuccess(status_code) == 299 >= status_code /\ status_code >= 200

\* the keyword arguments of log_line_post.format, as format renders them
FormatArgs(is_success, response) ==
  [k \in {K_success, K_status_code, K_message} |->
     IF k = K_success THEN BoolStr(is_success)
     ELSE IF k = K_status_code THEN IntStr(response.status_code)
     ELSE response.reason]

\* session.send returned `response`: classification, the post-flight line
\* and the return.  str.format raising ends the call with that error,
\* before anything is logged.
TransportReturns(response) ==
  LET is_success == IsSuccess(response.status_code)
      formatted == Format(locals.log_line_post, FormatArgs(is_success, response))
  IN /\ pc = "sending"
     /\ pc' = "idle"
     /\ transport' = [kind |-> "returned", response |-> response, exc |-> NoException]
     /\ locals' = [locals EXCEPT !.is_success = is_success]
     /\ IF formatted.ok
        THEN /\ trace' = Append(trace, LogRecord(IF is_success THEN DEBUG ELSE ERROR,
                                                 formatted.str))
             /\ result' = [kind |-> "response", response |-> response, exc |-> NoException]
        ELSE /\ trace' = trace
             /\ result' = [kind |-> "raised", response |-> NoResponse, exc |-> formatted.exc]
     /\ UNCHANGED <<url, session_headers, api_key, op, args, logargs, ncalls, nsends>>

\* an except branch that logs the error and returns None instead of raising
TransportRaises_Swallowed(e) ==
  /\ pc = "sending"
  /\ pc' = "idle"
  /\ transport' = [kind |-> "raised", response |-> NoResponse, exc |-> e]
  /\ trace' = Append(trace, LogRecord(ERROR, e.text))
  /\ result' = [kind |-> "response", response |-> NoResponse, exc |-> NoException]
  /\ UNCHANGED <<url, session_headers, api_key, op, args, locals, logargs, ncalls, nsends>>

\* an except branch that logs the error and sends the request again
TransportRaises_Retried(e) ==
  /\ pc = "sending"
  /\ nsends < MaxCalls + 1
  /\ pc' = "sending"
  /\ transport' = [kind |-> "raised", response |-> NoResponse, exc |-> e]
  /\ trace' = trace \o <<LogRecord(ERROR, e.text), trace[2]>>
  /\ nsends' = nsends + 1
  /\ UNCHANGED <<url, session_headers, api_key, op, args, locals, result, logargs, ncalls>>

\* session.send raised the RequestException e: str(e) is logged at error
\* severity and e is raised again
TransportRaises(e) ==
  /\ pc = "sending"
  /\ pc' = "idle"
  /\ transport' = [kind |-> "raised", response |-> NoResponse, exc |-> e]
  /\ trace' = Append(trace, LogRecord(ERROR, e.text))
  /\ result' = [kind |-> "raised", response |-> NoResponse, exc |-> e]
  /\ UNCHANGED <<url, session_headers, api_key, op, args, locals, logargs, ncalls, nsends>>

Next ==
  \/ \E endpoint \in Endpoints, ep_params \in ParamDicts : Get(endpoint, ep_params)
  \/ \E endpoint \in Endpoints, ep_params \in ParamDicts, data \in DataDicts :
       Post(endpoint, ep_params, data)
  \/ \E endpoint \in Endpoints, ep_params \in ParamDicts, data \in DataDicts :
       Put(endpoint, ep_params, data)
  \/ \E endpoint \in Endpoints, ep_params \in ParamDicts : Delete(endpoint, ep_params)
  \/ \E response \in Responses : TransportReturns(response)
  \/ \E e \in TransportErrors : TransportRaises(e)
  \/ \E level \in LogLabels, msg \in LogMessages : Log(level, msg)

Spec == Init /\ [][Next]_vars

(* ------------------------------ claims --------------------------------- *)
S_success == <<","," ","s","u","c","c","e","s","s","=">>
S_status_code == <<","," ","s","t","a","t","u","s","_","c","o","d","e","=">>
S_message == <<","," ","m","e","s","s","a","g","e","=">>

\* a call of _do has ended (returned or raised)
Ended == op = "_do" /\ pc = "idle"
\* ... and in it the transport returned a response
Returned == Ended /\ transport.kind = "returned"
\* ... and in it the transport raised
Raised == Ended /\ transport.kind = "raised"

InRange(c) == 200 <= c /\ c <= 299
SendCount == Cardinality({i \in 1..Len(trace) : trace[i].ev = "send"})

\* the names _logger_config accepts, with their severities
SeverityOf(name) ==
  IF name = L_DEBUG THEN DEBUG
  ELSE IF name = L_INFO THEN INFO
  ELSE IF name = L_WARNING THEN WARNING
  ELSE IF name = L_ERROR THEN ERROR
  ELSE CRITICAL
SeverityNames == {L_DEBUG, L_INFO, L_WARNING, L_ERROR, L_CRITICAL}

\* C1: whenever the transport returned a response, the success flag is true
\* exactly when 200 <= status_code <= 299, whatever the HTTP method.
C1_SuccessIffInRange ==
  Returned => (locals.is_success <=> InRange(transport.response.status_code))
C1_Witness ==
  /\ Returned
  /\ transport.response.status_code = 299
  /\ locals.is_success
  /\ args.http_method = POST

\* C2: every ended call of _do handed the logger exactly one pre-flight
\* record, then asked the transport to send, then handed the logger exactly
\* one further record (post-flight or error); while the call waits in send,
\* the pre-flight record is the only record.
C2_OnePreThenOnePost ==
  /\ (op = "_do" /\ pc = "sending") =>
       /\ Len(trace) = 2
       /\ trace[1].ev = "log"
       /\ trace[2].ev = "send"
  /\ Ended =>
       /\ Len(trace) = 3
       /\ trace[1].ev = "log"
       /\ trace[2].ev = "send"
       /\ trace[3].ev = "log"

\* C3: when the transport returned a response, _do returns that response and
\* does not raise, for every status code, endpoint and query parameters; _do
\* raises only when the transport raised.
C3_ReturnsTheResponse ==
  /\ Returned => (result.kind = "response" /\ result.response = transport.response)
  /\ (Ended /\ result.kind = "raised") => transport.kind = "raised"

\* C4: when the transport raised, the trace is the pre-flight record, the
\* send, and one record at error severity whose text is str(e): no
\* post-flight record, no response returned, and the same error raised.
C4_TransportErrorLoggedAndRaised ==
  Raised =>
    /\ Len(trace) = 3
    /\ trace[1].ev = "log" /\ trace[1].level = DEBUG
    /\ trace[2].ev = "send"
    /\ trace[3] = LogRecord(ERROR, transport.exc.text)
    /\ result.kind = "raised"
    /\ result.exc = transport.exc
    /\ result.response = NoResponse
C4_Witness ==
  /\ Raised
  /\ transport.exc \in TransportErrors
  /\ trace[3].level = ERROR
  /\ result.kind = "raised"

\* C5: when the transport returned a response, the record after the send is
\* the pre-flight line followed by ", success=<bool>, status_code=<int>,
\* message=<reason>" of that response, at debug severity for 200..299 and
\* at error severity otherwise.
C5_PostFlightRecord ==
  Returned =>
    /\ Len(trace) = 3
    /\ trace[3] =
         LogRecord(IF InRange(transport.response.status_code) THEN DEBUG ELSE ERROR,
                   trace[1].msg
                     \o S_success \o BoolStr(InRange(transport.response.status_code))
                     \o S_status_code \o IntStr(transport.response.status_code)
                     \o S_message \o transport.response.reason)

\* C6: every request handed to the transport carries the API key given to
\* the constructor: as a header value, a query parameter value or a body value.
CarriesApiKey(request) ==
  \/ \E h \in DOMAIN request.headers : request.headers[h] = api_key
  \/ \E i \in 1..Len(request.params.items) : request.params.items[i][2] = api_key
  \/ \E i \in 1..Len(request.json.items) : request.json.items[i][2] = api_key
C6_RequestsCarryApiKey ==
  \A i \in 1..Len(trace) : trace[i].ev = "send" => CarriesApiKey(trace[i].request)

\* C7: a call of _do asks the transport to send at most once, whatever the
\* status code or transport error, and the sends so far never exceed the calls
\* so far.
C7_AtMostOneSend == SendCount <= 1 /\ nsends <= ncalls
C7_Witness ==
  /\ Raised
  /\ ncalls = 2
  /\ nsends = 2
  /\ SendCount = 1

\* C8: the pre-flight line is "method=<method>, url=<full URL>, params=<list>"
\* with one entry "key: value" per query parameter, in the mapping's order;
\* omitted or empty query parameters give "[]", and the params field is
\* always there.
C8_PreFlightLine ==
  op = "_do" =>
    LET p == args.ep_params
        head == S_method \o args.http_method \o S_url \o url \o args.endpoint \o S_params
        line == trace[1].msg
        list == SubSeq(line, Len(head) + 1, Len(line))
        entries == [i \in 1..Len(p.items) |->
                      StrRepr(p.items[i][1] \o <<":", " ">> \o p.items[i][2])]
    IN /\ trace[1].ev = "log"
       /\ Len(line) >= Len(head) + 2
       /\ SubSeq(line, 1, Len(head)) = head
       /\ (p.none \/ p.items = <<>>) => list = <<"[", "]">>
       /\ list = <<"[">> \o Join(<<",", " ">>, entries) \o <<"]">>
C8_Witness ==
  /\ op = "_do"
  /\ args.ep_params = NoneDict
  /\ args.endpoint = <<"a">>
  /\ url = <<"h","t","t","p","s",":","/","/","h","/","v","1","/">>
  /\ args.http_method = GET
  /\ trace[1].msg = <<"m","e","t","h","o","d","=","G","E","T",","," ","u","r","l","=","h","t","t","p","s",":","/","/","h","/","v","1","/","a",","," ","p","a","r","a","m","s","=","[","]">>

\* C9, as stated: for every label that is none of the five severity names
\* (in any letter case), log hands the logger exactly one record, carrying
\* msg, at severity 0.
C9_UnrecognisedIsNoOp ==
  (op = "log" /\ Upper(logargs.level) \notin SeverityNames) =>
     trace = <<LogRecord(NOTSET, logargs.msg)>>
\* C9, amended: for every label that is none of the five severity names and
\* not FATAL (in any letter case), log hands the logger exactly one record,
\* carrying msg, at severity 0.
C9_UnrecognisedButFatalIsNoOp ==
  (op = "log" /\ Upper(logargs.level) \notin SeverityNames \cup {L_FATAL}) =>
     trace = <<LogRecord(NOTSET, logargs.msg)>>
C9_Witness ==
  /\ op = "log"
  /\ logargs.level = <<"T","R","A","C","E">>
  /\ trace = <<LogRecord(NOTSET, logargs.msg)>>

\* C10: for each of the labels DEBUG, INFO, WARNING, ERROR and CRITICAL, in
\* any letter case, log hands the logger the record at that label's own
\* severity (10, 20, 30, 40, 50).
C10_FiveLabelsKeepTheirSeverity ==
  (op = "log" /\ Upper(logargs.level) \in SeverityNames) =>
     trace = <<LogRecord(SeverityOf(Upper(logargs.level)), logargs.msg)>>

====
